---- MODULE Spec2Model ----
(***************************************************************************)
(* NHL goal-scorer predictor: the record store, the preprocessing and      *)
(* feature-engineering scripts, and the inference paths, as a state        *)
(* machine.                                                                *)
(*                                                                         *)
(* Conventions of the model                                                *)
(*  - a CSV file / DataFrame is a sequence of records (rows, in file       *)
(*    order); its column list is a separate sequence of names;            *)
(*  - a calendar day is an integer (its ordinal); '%Y-%m-%d' text and      *)
(*    pd.to_datetime order days the way the integers do;                   *)
(*  - MM:SS text is the sequence of its ':'-separated parts, <<m, s>>;     *)
(*    a part that int() rejects is NotInt, a missing value is <<>>;        *)
(*  - a float holding a mean is kept exactly, in units of 1/AvgScale      *)
(*    (AvgScale is a multiple of every window length 1..roll_window);      *)
(*    NaN is the value NaN below.                                          *)
(***************************************************************************)
EXTENDS Integers, Sequences, FiniteSets, TLC

VARIABLES
    store,          \* nhl_historical_stats.csv: the raw record store
    rows_removed,   \* 4_deduplicate_data.py: <<n>> when the script run last was
                    \* the deduplication pass and removed n rows, else <<>>
    processed,      \* nhl_processed_stats.csv
    featured,       \* nhl_featured_stats.csv
    model,          \* nhl_goal_predictor_model.joblib: its feature names
    cache_resource, \* app.py: st.cache_resource of load_model: <<>> or <<its value>>
    cache_data,     \* app.py: st.cache_data of load_data: <<>> or <<its frame>>
    session_state,  \* app.py: per session, st.session_state['feature_order']
    out             \* what the last prediction request showed

vars == <<store, rows_removed, processed, featured, model,
          cache_resource, cache_data, session_state, out>>

\* The state of the inference side, which the pipeline scripts leave alone.
serving == <<cache_resource, cache_data, session_state, out>>

\* ------------------------------------------------------------------ bounds

\* The record store never holds more than MaxRows rows (ingestion stops there).
MaxRows == 6

\* ------------------------------------------------------------ generic helpers

\* The subsequence of s at the indices i for which P(i) holds.
SelectIdx(s, P(_)) ==
    LET F[i \in 0..Len(s)] ==
            IF i = 0 THEN <<>>
            ELSE IF P(i) THEN Append(F[i - 1], s[i]) ELSE F[i - 1]
    IN  F[Len(s)]

Range(s) == {s[i] : i \in 1..Len(s)}

\* The concatenation of a sequence of sequences.
Flatten(ss) ==
    LET F[i \in 0..Len(ss)] == IF i = 0 THEN <<>> ELSE F[i - 1] \o ss[i]
    IN  F[Len(ss)]

\* Sum of f[i] over 1..Len(f).
SumSeq(f) ==
    LET F[i \in 0..Len(f)] == IF i = 0 THEN 0 ELSE F[i - 1] + f[i]
    IN  F[Len(f)]

\* ------------------------------------------------- the upstream NHL web API

\* A part of MM:SS text that int() rejects.
NotInt == -1

\* A count (goals, shots, hits) that the upstream gives as text that is not
\* a number; a count it gives as null is NaN once the file is read back.
Text == -2

\* One player's entry of a box score ('playerByGameStats' -> team -> forwards/defense).
Player(id, name, g, s, h) ==
    [playerId |-> id, name |-> name, goals |-> g, assists |-> 0, shots |-> s,
     hits |-> h, blockedShots |-> 1, pim |-> 0,
     toi |-> <<10 + s, 30>>, powerPlayToi |-> <<g, 0>>, shorthandedToi |-> <<0, 0>>]

\* The team objects of the schedule: placeName and commonName ("" when absent).
Oilers  == [placeName |-> "Edmonton",  commonName |-> "Oilers"]
Flames  == [placeName |-> "Calgary",   commonName |-> "Flames"]
Canucks == [placeName |-> "Vancouver", commonName |-> "Canucks"]
NoName  == [placeName |-> "", commonName |-> ""]

\* The days of the scenario and the game each has on its schedule.
Dates == {1, 2}

\* What the schedule and box-score endpoints may answer for a game:
\*   final       the box score as first published
\*   revised     the box score after a stat correction
\*   unnamed     the schedule entry lacks the away team's names
Variants(d) ==
    IF d = 1 THEN {"final", "revised"} ELSE {"final", "unnamed"}

\* schedule_data['gameWeek'][0]['games'] for date d and answer v.
Schedule(d, v) ==
    IF v \in {"noweek", "nogames"} THEN <<>>
    ELSE IF d = 1
    THEN << [id |-> 101, homeTeam |-> Oilers,
             awayTeam |-> IF v = "unnamed" THEN NoName ELSE Flames] >>
    ELSE IF d = 2
    THEN << [id |-> 102, homeTeam |-> Canucks,
             awayTeam |-> IF v = "unnamed" THEN NoName ELSE Oilers] >>
    ELSE << [id |-> 103, homeTeam |-> Flames,
             awayTeam |-> IF v = "unnamed" THEN NoName ELSE Canucks] >>

\* The gamecenter box score of game_pk under answer v: per team key the
\* team's 'name' (commonName only, or absent: "") and its player section.
Boxscore(game_pk, v) ==
    IF game_pk = 101
    THEN [homeTeam |-> [name |-> "Oilers"], awayTeam |-> [name |-> "Flames"],
          playerByGameStats |->
            [homeTeam |->
               [forwards |-> << IF v = "revised" THEN Player(97, "C. McDavid", 1, 4, 0)
                                                 ELSE Player(97, "C. McDavid", 2, 2, 1) >>,
                defense  |-> << Player(2, "L. Draisaitl", 1, 3, 0) >>],
             awayTeam |->
               [forwards |-> << IF v = "revised" THEN Player(20, "S. Aho", 0, 1, 2)
                                                 ELSE Player(20, "S. Aho", 1, 1, 2) >>,
                defense  |-> <<>>]]]
    ELSE IF game_pk = 103
    THEN [homeTeam |-> [name |-> "Flames"], awayTeam |-> [name |-> "Canucks"],
          playerByGameStats |->
            [homeTeam |->
               [forwards |-> << Player(20, "S. Aho", 2, 5, 1) >>,
                defense  |-> <<>>],
             awayTeam |->
               [forwards |-> << Player(40, "S. Aho", 0, 3, 2) >>,
                defense  |-> <<>>]]]
    ELSE [homeTeam |-> [name |-> "Canucks"], awayTeam |-> [name |-> "Oilers"],
          playerByGameStats |->
            [homeTeam |->
               [forwards |-> << Player(40, "S. Aho", 0, 2, 0) >>,
                defense  |-> <<>>],
             awayTeam |->
               [forwards |-> << Player(97, "C. McDavid", 1, 6, 0) >>,
                defense  |-> <<>>]]]

\* ------------------------------------------------- 1_data_collector.py

get_full_team_name(team_data) ==
    IF team_data.placeName # "" /\ team_data.commonName # ""
    THEN team_data.placeName \o " " \o team_data.commonName
    ELSE IF team_data.commonName # "" THEN team_data.commonName
    ELSE ""

\* The player_info dict built for one player of one team in one game.
player_info(game_pk, date_str, team_name, player) ==
    [Game_ID |-> game_pk, Date |-> date_str, Player_ID |-> player.playerId,
     Player_Name |-> player.name, Team |-> team_name,
     Goals |-> player.goals, Assists |-> player.assists,
     Shots |-> player.shots, Hits |-> player.hits,
     Blocked_Shots |-> player.blockedShots, Penalty_Minutes |-> player.pim,
     Time_On_Ice |-> player.toi, PowerPlay_TOI |-> player.powerPlayToi,
     ShortHanded_TOI |-> player.shorthandedToi]

\* The rows one team's section contributes (forwards + defense, in order).
SectionRows(game_pk, date_str, team_name, section) ==
    LET players == section.forwards \o section.defense
    IN  [i \in 1..Len(players) |-> player_info(game_pk, date_str, team_name, players[i])]

\* The rows of one scheduled game: skipped when a team name is missing,
\* otherwise the away team's rows followed by the home team's.
GameRows(game, date_str, v) ==
    LET home_team_name == get_full_team_name(game.homeTeam)
        away_team_name == get_full_team_name(game.awayTeam)
        game_data == Boxscore(game.id, v)
    IN  IF home_team_name = "" \/ away_team_name = "" THEN <<>>
        ELSE SectionRows(game.id, date_str, away_team_name,
                         game_data.playerByGameStats.awayTeam)
             \o SectionRows(game.id, date_str, home_team_name,
                            game_data.playerByGameStats.homeTeam)

fetch_and_process_data_for_date(date_str, v) ==
    LET games == Schedule(date_str, v)
    IN  Flatten([i \in 1..Len(games) |-> GameRows(games[i], date_str, v)])

\* __main__: fetch the target date and append what was fetched to the store.
Ingest(d, v) ==
    LET new_data_df == fetch_and_process_data_for_date(d, v)
    IN  /\ Len(store) + Len(new_data_df) <= MaxRows
        /\ store' = store \o new_data_df
        /\ rows_removed' = <<>>
        /\ UNCHANGED <<processed, featured, model, serving>>

\* ------------------------------------------------- data_collector.py

\* The season range of the historical collection holds day 1 only; the
\* collection reads the box scores as first published.
SeasonDates == <<1>>

\* Rows of one game as the historical collector names teams: by the box
\* score's own 'name', 'Unknown Team' when the box score has none.
HistoricalGameRows(game, date_str, v, named) ==
    LET game_data == Boxscore(game.id, v)
        team_name(team_key) ==
            IF named THEN game_data[team_key].name ELSE "Unknown Team"
    IN  SectionRows(game.id, date_str, team_name("awayTeam"),
                    game_data.playerByGameStats.awayTeam)
        \o SectionRows(game.id, date_str, team_name("homeTeam"),
                       game_data.playerByGameStats.homeTeam)

build_historical_dataset(named) ==
    Flatten([k \in 1..Len(SeasonDates) |->
        LET games == Schedule(SeasonDates[k], "final")
        IN  Flatten([i \in 1..Len(games) |->
                HistoricalGameRows(games[i], SeasonDates[k], "final", named)])])

\* The script's main: the store file is written with the collected season
\* (the run that seeds the store; `named` is whether the box scores carry
\* the teams' 'name').
CollectHistorical(named) ==
    /\ store = <<>>
    /\ store' = build_historical_dataset(named)
    /\ rows_removed' = <<>>
    /\ UNCHANGED <<processed, featured, model, serving>>

\* ------------------------------------------------- 4_deduplicate_data.py

\* Mutant: the team name made part of the key.
unique_cols_with_team(r) == <<r.Game_ID, r.Player_ID, r.Date, r.Team>>

unique_cols(r) == <<r.Game_ID, r.Player_ID, r.Date>>

\* Mutant: keep='first'.
drop_duplicates_first(df) ==
    SelectIdx(df, LAMBDA i :
        \A j \in 1..(i - 1) : unique_cols(df[j]) # unique_cols(df[i]))

\* Mutant: keep=False, every row whose key occurs twice is dropped.
drop_duplicates_none(df) ==
    SelectIdx(df, LAMBDA i :
        \A j \in 1..Len(df) : unique_cols(df[j]) = unique_cols(df[i]) => j = i)

\* df.drop_duplicates(subset=unique_cols, keep='last')
drop_duplicates(df) ==
    SelectIdx(df, LAMBDA i :
        \A j \in (i + 1)..Len(df) : unique_cols(df[j]) # unique_cols(df[i]))

\* The pass: the file is rewritten only when rows were removed.
Deduplicate ==
    /\ store # <<>>
    /\ LET df_deduplicated == drop_duplicates(store)
           removed == Len(store) - Len(df_deduplicated)
       IN  /\ rows_removed' = <<removed>>
           /\ store' = IF removed > 0 THEN df_deduplicated ELSE store
    /\ UNCHANGED <<processed, featured, model, serving>>

\* ------------------------------------------------- 2_process_data.py

convert_time_to_seconds(time_str) ==
    IF time_str = <<>> THEN 0
    ELSE IF Len(time_str) # 2 THEN 0
    ELSE IF time_str[1] = NotInt \/ time_str[2] = NotInt THEN 0
    ELSE (time_str[1] * 60) + time_str[2]

process_row(r) ==
    [Game_ID |-> r.Game_ID, Date |-> r.Date, Player_ID |-> r.Player_ID,
     Player_Name |-> r.Player_Name, Team |-> r.Team,
     Goals |-> r.Goals, Assists |-> r.Assists, Shots |-> r.Shots, Hits |-> r.Hits,
     Blocked_Shots |-> r.Blocked_Shots, Penalty_Minutes |-> r.Penalty_Minutes,
     Time_On_Ice |-> convert_time_to_seconds(r.Time_On_Ice),
     PowerPlay_TOI |-> convert_time_to_seconds(r.PowerPlay_TOI),
     ShortHanded_TOI |-> convert_time_to_seconds(r.ShortHanded_TOI),
     Did_Score |-> IF r.Goals > 0 THEN 1 ELSE 0]

ProcessData ==
    /\ store # <<>>
    /\ \A i \in 1..Len(store) : store[i].Goals # Text   \* x > 0 raises TypeError
    /\ processed' = [i \in 1..Len(store) |-> process_row(store[i])]
    /\ rows_removed' = <<>>
    /\ UNCHANGED <<store, featured, model, serving>>

\* ------------------------------------------------- 3_train_model.py

roll_window == 10

stats_to_roll == <<"Goals", "Shots", "Time_On_Ice", "PowerPlay_TOI", "Hits">>

\* float('nan') in a numeric column; "NaN" in a text column.
NaN == -1

\* A mean m is stored as the integer m * AvgScale; AvgScale is a multiple
\* of every count 1..roll_window, so the stored value is exact.
AvgScale == 8 * 9 * 5 * 7

\* Python's order of the team names that occur (str comparison).
NameOrder ==
    <<"0", "Calgary Flames", "Edmonton Oilers", "Flames", "NaN", "Oilers",
      "Unknown Team", "Vancouver Canucks">>

NameRank(name) == CHOOSE k \in 1..Len(NameOrder) : NameOrder[k] = name

\* Lexicographic order of equal-length tuples of integers.
TupleLess(a, b) ==
    \E k \in 1..Len(a) : a[k] < b[k] /\ \A m \in 1..(k - 1) : a[m] = b[m]

\* df.sort_values(by=...): a stable sort by the integer tuple Key(row).
sort_values(df, Key(_)) ==
    LET Insert(sorted, r) ==
            LET n == Cardinality({k \in 1..Len(sorted) : ~TupleLess(Key(r), Key(sorted[k]))})
            IN  SubSeq(sorted, 1, n) \o <<r>> \o SubSeq(sorted, n + 1, Len(sorted))
        F[i \in 0..Len(df)] == IF i = 0 THEN <<>> ELSE Insert(F[i - 1], df[i])
    IN  F[Len(df)]

\* The last n elements of s.
Tail_n(s, n) == SubSeq(s, IF Len(s) > n THEN Len(s) - n + 1 ELSE 1, Len(s))

\* Mutant: the rolling mean without shift(1), the row's own value included.
rolling_mean_noshift(x) ==
    [i \in 1..Len(x) |->
        LET window == Tail_n(SubSeq(x, 1, i), roll_window)
            obs == SelectSeq(window, LAMBDA v : v # NaN)
        IN  IF Len(obs) = 0 THEN NaN ELSE (AvgScale * SumSeq(obs)) \div Len(obs)]

\* x.rolling(window=roll_window, min_periods=1).mean().shift(1) for a
\* group's column x: at position i the mean of the non-NaN values among the
\* roll_window positions before i; NaN when there is none.
rolling_mean_shift(x) ==
    [i \in 1..Len(x) |->
        LET window == Tail_n(SubSeq(x, 1, i - 1), roll_window)
            obs == SelectSeq(window, LAMBDA v : v # NaN)
        IN  IF Len(obs) = 0 THEN NaN ELSE (AvgScale * SumSeq(obs)) \div Len(obs)]

\* df.groupby(key)[col].transform(rolling...): for each row of df the value
\* the rolling of its group's column gives at the row's place in the group.
group_rolling(df, Group(_), col) ==
    [i \in 1..Len(df) |->
        LET upto == SelectSeq(SubSeq(df, 1, i), LAMBDA r : Group(r) = Group(df[i]))
        IN  rolling_mean_shift([k \in 1..Len(upto) |-> upto[k][col]])[Len(upto)]]

AvgName(stat) == "Avg_" \o stat \o "_Last_10"

\* Lines 11-17: the frame sorted by player and date, each row extended with
\* the rolling columns.
player_features(df0) ==
    LET df == sort_values(df0, LAMBDA r : <<r.Player_ID, r.Date>>)
        rolled == [k \in 1..Len(stats_to_roll) |->
                     group_rolling(df, LAMBDA r : r.Player_ID, stats_to_roll[k])]
    IN  [i \in 1..Len(df) |->
            df[i] @@ [c \in {AvgName(stats_to_roll[k]) : k \in 1..Len(stats_to_roll)} |->
                        LET k == CHOOSE k \in 1..Len(stats_to_roll) :
                                    AvgName(stats_to_roll[k]) = c
                        IN  rolled[k][i]]]

\* The distinct values of Key over df, in order of first occurrence.
FirstKeys(df, Key(_)) ==
    LET keys == [i \in 1..Len(df) |-> Key(df[i])]
    IN  SelectIdx(keys, LAMBDA i : \A j \in 1..(i - 1) : keys[j] # keys[i])

\* Line 19: df.groupby(['Game_ID','Team','Date'])['Goals'].sum().reset_index():
\* one row per group, the groups in key order.
team_goals(df) ==
    LET groups == FirstKeys(df, LAMBDA r : <<r.Game_ID, r.Team, r.Date>>)
        rows == [k \in 1..Len(groups) |->
                   [Game_ID |-> groups[k][1], Team |-> groups[k][2], Date |-> groups[k][3],
                    Goals |-> SumSeq(SelectSeq(
                        [i \in 1..Len(df) |->
                            IF <<df[i].Game_ID, df[i].Team, df[i].Date>> = groups[k]
                            THEN df[i].Goals ELSE NaN],
                        LAMBDA x : x # NaN))]]
    IN  sort_values(rows, LAMBDA r : <<r.Game_ID, NameRank(r.Team), r.Date>>)

\* pd.merge(t, t, on='Game_ID'): every pair of rows of t sharing a Game_ID,
\* in the order of the left row, then of the right row.
self_merge(t) ==
    Flatten([a \in 1..Len(t) |->
        SelectSeq([b \in 1..Len(t) |-> [left |-> t[a], right |-> t[b]]],
                  LAMBDA p : p.left.Game_ID = p.right.Game_ID)])

\* Mutant: Goals_team renamed to Goals_Allowed, the team's own goals.
goals_allowed_own(df) ==
    LET merged_goals == self_merge(team_goals(df))
        different == SelectSeq(merged_goals, LAMBDA p : p.left.Team # p.right.Team)
    IN  [k \in 1..Len(different) |->
            [Date |-> different[k].left.Date, Game_ID |-> different[k].left.Game_ID,
             Team |-> different[k].left.Team,
             Goals_Allowed |-> different[k].left.Goals]]

\* Lines 20-24: per game each team paired with each different team of the
\* game, the other's goals renamed Goals_Allowed.
goals_allowed(df) ==
    LET merged_goals == self_merge(team_goals(df))
        different == SelectSeq(merged_goals, LAMBDA p : p.left.Team # p.right.Team)
    IN  [k \in 1..Len(different) |->
            [Date |-> different[k].left.Date, Game_ID |-> different[k].left.Game_ID,
             Team |-> different[k].left.Team,
             Goals_Allowed |-> different[k].right.Goals]]

\* Lines 25-28: those rows sorted by team and date, with the team's rolling
\* mean of Goals_Allowed.
team_defensive_stats(df) ==
    LET renamed == goals_allowed(df)
        sorted == sort_values(renamed, LAMBDA r : <<NameRank(r.Team), r.Date>>)
        rolled == group_rolling(sorted, LAMBDA r : r.Team, "Goals_Allowed")
    IN  [k \in 1..Len(sorted) |->
            sorted[k] @@ [c \in {"Opp_GA_Avg_Last_10"} |-> rolled[k]]]

\* Lines 29-32: for each game, each team paired with each different team of
\* the same game.
opponent_map(df) ==
    LET keys == FirstKeys(df, LAMBDA r : <<r.Game_ID, r.Team>>)
        game_teams == [k \in 1..Len(keys) |-> [Game_ID |-> keys[k][1], Team |-> keys[k][2]]]
        game_teams_merged == self_merge(game_teams)
        different == SelectSeq(game_teams_merged, LAMBDA p : p.left.Team # p.right.Team)
    IN  [k \in 1..Len(different) |->
            [Game_ID |-> different[k].left.Game_ID, Team |-> different[k].left.Team,
             Opponent |-> different[k].right.Team]]

\* pd.merge(left, right, how='left') on Match(l, r): each left row once per
\* matching right row, in the right table's order; once, extended by
\* `missing`, when no right row matches. Extend(l, r) is the joined row.
left_merge(left, right, Match(_, _), Extend(_, _), missing) ==
    Flatten([i \in 1..Len(left) |->
        LET hits == SelectSeq(right, LAMBDA r : Match(left[i], r))
        IN  IF Len(hits) = 0 THEN << left[i] @@ missing >>
            ELSE [k \in 1..Len(hits) |-> Extend(left[i], hits[k])]])

\* df.fillna(0) on the columns that can hold NaN.
fillna(r) ==
    [c \in DOMAIN r |->
        IF c = "Opponent" THEN (IF r[c] = "NaN" THEN "0" ELSE r[c])
        ELSE IF c \in {"Game_ID", "Date", "Player_ID", "Player_Name", "Team"} THEN r[c]
        ELSE IF r[c] = NaN THEN 0 ELSE r[c]]

\* Lines 8-41: the feature table written to nhl_featured_stats.csv.
build_features(df0) ==
    LET df == player_features(df0)
        tds == team_defensive_stats(df)
        with_opp == left_merge(df, opponent_map(df),
                        LAMBDA l, r : l.Game_ID = r.Game_ID /\ l.Team = r.Team,
                        LAMBDA l, r : l @@ [c \in {"Opponent"} |-> r.Opponent],
                        [c \in {"Opponent"} |-> "NaN"])
        with_ga == left_merge(with_opp, tds,
                        LAMBDA l, r : l.Game_ID = r.Game_ID /\ l.Opponent = r.Team,
                        LAMBDA l, r : l @@ [c \in {"Opp_GA_Avg_Last_10"} |->
                                                r.Opp_GA_Avg_Last_10],
                        [c \in {"Opp_GA_Avg_Last_10"} |-> NaN])
    IN  [i \in 1..Len(with_ga) |-> fillna(with_ga[i])]

target == "Did_Score"

features ==
    <<"Shots", "Hits", "Blocked_Shots", "Penalty_Minutes", "Time_On_Ice",
      "PowerPlay_TOI", "ShortHanded_TOI", "Avg_Goals_Last_10", "Avg_Shots_Last_10",
      "Avg_Time_On_Ice_Last_10", "Avg_PowerPlay_TOI_Last_10", "Avg_Hits_Last_10",
      "Opp_GA_Avg_Last_10">>

\* df[columns]: the rows of df restricted to the listed columns, in the
\* listed order (each row a sequence of values).
select_columns(df, columns) ==
    [i \in 1..Len(df) |-> [k \in 1..Len(columns) |-> df[i][columns[k]]]]

\* Lines 53-63: the split keeps a fifth of the rows (rounded up) for the
\* evaluation; roc_auc_score raises unless both classes are among them, and
\* the model file is written only after it.
can_evaluate(df) ==
    /\ (Len(df) + 4) \div 5 >= 2
    /\ \E i, j \in 1..Len(df) : df[i][target] = 1 /\ df[j][target] = 0

\* The script: the feature table is written; then the model is fitted and,
\* when the evaluation does not raise, saved with the names of the columns
\* it was fitted on.
TrainModel ==
    /\ processed # <<>>
    /\ \A i \in 1..Len(processed), k \in 1..Len(stats_to_roll) :
          processed[i][stats_to_roll[k]] # Text          \* rolling raises on text
    /\ featured' = build_features(processed)
    /\ model' \in (IF can_evaluate(featured') THEN {features, model} ELSE {model})
    /\ rows_removed' = <<>>
    /\ UNCHANGED <<store, processed, serving>>

\* ------------------------------------------------- app.py: the dashboard

\* The browser sessions of the dashboard.
Sessions == {1, 2}

\* The evenings on which a prediction is asked for, and what the schedule
\* endpoint may answer then:
\*   final     the evening's game
\*   unnamed   the schedule entry lacks the away team's names
\*   noweek    the answer has no 'gameWeek'
\*   nogames   the first day of 'gameWeek' has no games
\*   down      the request raises
Tonights == {1, 2, 3}

TonightAnswers(d) ==
    IF d = 1 THEN {"final", "down"}
    ELSE IF d = 2 THEN {"final", "unnamed", "noweek"}
    ELSE {"final", "nogames"}

\* The columns of nhl_featured_stats.csv, in file order.
FeaturedColumns ==
    <<"Game_ID", "Date", "Player_ID", "Player_Name", "Team", "Goals", "Assists",
      "Shots", "Hits", "Blocked_Shots", "Penalty_Minutes", "Time_On_Ice",
      "PowerPlay_TOI", "ShortHanded_TOI", "Did_Score", "Avg_Goals_Last_10",
      "Avg_Shots_Last_10", "Avg_Time_On_Ice_Last_10", "Avg_PowerPlay_TOI_Last_10",
      "Avg_Hits_Last_10", "Opponent", "Opp_GA_Avg_Last_10">>

\* The columns of a frame read from the file: those its rows hold, in file
\* order.
columns_of(df) ==
    LET present == IF df = <<>> THEN {} ELSE DOMAIN df[1]
        F[k \in 0..Len(FeaturedColumns)] ==
            IF k = 0 THEN <<>>
            ELSE IF FeaturedColumns[k] \in present
                 THEN Append(F[k - 1], FeaturedColumns[k]) ELSE F[k - 1]
    IN  F[Len(FeaturedColumns)]

\* Python's order of the player names that occur (str comparison).
PlayerNameOrder == <<"C. McDavid", "L. Draisaitl", "S. Aho">>

\* What a request leaves on the page (or on the terminal): the columns and
\* rows of the matrix given to predict_proba (<<>> when it was not called),
\* the names of the features the classifier was fitted on, the ranked
\* results, the skipped players with their reasons, and the other messages;
\* with them the request itself: the evening, the schedule's answer and the
\* players asked for, and the player and team columns of the frame the
\* matrix was taken from, row by row.
NoOutput ==
    [path |-> "none", X_columns |-> <<>>, X |-> <<>>, feature_names |-> <<>>,
     results |-> <<>>, skipped |-> <<>>, messages |-> <<>>, request |-> <<>>,
     X_index |-> <<>>]

Request(tonight, answer, players) ==
    [tonight |-> tonight, answer |-> answer, players |-> players]

\* A request of the given path that ends with the given messages only.
Said(path, messages) == [NoOutput EXCEPT !.path = path, !.messages = messages]

\* Lines 16-28.
app_get_full_team_name(team_data) ==
    IF team_data.placeName # "" /\ team_data.commonName # ""
    THEN team_data.placeName \o " " \o team_data.commonName
    ELSE IF team_data.commonName # "" THEN team_data.commonName
    ELSE ""

\* The <<home, away>> names of the scheduled games.
schedule_names(games) ==
    [i \in 1..Len(games) |-> <<app_get_full_team_name(games[i].homeTeam),
                               app_get_full_team_name(games[i].awayTeam)>>]

\* The dict the loop over the games fills: a game with both names maps each
\* team to the other, a later game overwriting an earlier one.
player_matchups(names) ==
    LET F[i \in 0..Len(names)] ==
            IF i = 0 THEN [t \in {} |-> ""]
            ELSE IF names[i][1] # "" /\ names[i][2] # ""
                 THEN (names[i][2] :> names[i][1]) @@ (names[i][1] :> names[i][2])
                      @@ F[i - 1]
                 ELSE F[i - 1]
    IN  F[Len(names)]

\* d.get(key, default) of a dict, a Series or a row.
Get(d, key, default) == IF key \in DOMAIN d THEN d[key] ELSE default

\* historical_df.loc[historical_df.groupby('Player_ID')['Date'].idxmax()]:
\* per Player_ID in ascending order, the first row that holds its latest Date.
latest_player_stats(historical_df) ==
    LET I == 1..Len(historical_df)
        ids == {historical_df[i].Player_ID : i \in I}
        idxmax(p) ==
            CHOOSE i \in I :
                /\ historical_df[i].Player_ID = p
                /\ \A j \in I : historical_df[j].Player_ID = p =>
                       \/ historical_df[j].Date < historical_df[i].Date
                       \/ historical_df[j].Date = historical_df[i].Date /\ j >= i
        nth(k) == CHOOSE p \in ids : Cardinality({q \in ids : q < p}) = k - 1
    IN  [k \in 1..Cardinality(ids) |-> historical_df[idxmax(nth(k))]]

\* latest.drop_duplicates(subset=['Team'], keep='last').set_index('Team')
\* ['Opp_GA_Avg_Last_10']: per team, the value on the last of its rows.
latest_team_def_stats(latest) ==
    [t \in {latest[i].Team : i \in 1..Len(latest)} |->
        latest[CHOOSE i \in 1..Len(latest) :
                  /\ latest[i].Team = t
                  /\ \A j \in (i + 1)..Len(latest) : latest[j].Team # t]
            .Opp_GA_Avg_Last_10]

\* What df[key] raises when a name of key is not a column of df.
KeyError == <<"KeyError">>

\* What is shown for a KeyError that no except clause of the path catches:
\* the exception itself, the request ending there.
Uncaught == "KeyError (uncaught)"

\* The columns a features_dict reads by row[...], which raises KeyError for
\* a column the row lacks: the box-score ones in app.py, whose rolling
\* averages are read by row.get(..., 0); all of them in predict_tonight.py.
IndexedColumns ==
    {"Shots", "Hits", "Blocked_Shots", "Penalty_Minutes", "Time_On_Ice",
     "PowerPlay_TOI", "ShortHanded_TOI"}

\* Mutant: df.drop(columns=[...]) of the three text columns in place of
\* df[key]: whatever else the frame holds, in the frame's order.
drop_info_columns(columns, key) ==
    SelectIdx(columns, LAMBDA k : columns[k] \notin {"Player_Name", "Team", "Opponent"})

\* The columns of df[key]: the names of key in key's order.
getitem_columns(columns, key) ==
    IF \A k \in 1..Len(key) : key[k] \in Range(columns) THEN key ELSE KeyError

\* The classifier is opaque: some fixed function of the row it is given, in
\* which the position of a value matters.
predict_proba(X) ==
    [i \in 1..Len(X) |-> SumSeq([k \in 1..Len(X[i]) |-> k * X[i][k]])]

\* frame[['Player_Name', 'Team', 'Opponent', 'Goal_Probability']]
\* .sort_values(by='Goal_Probability', ascending=False); rows of equal
\* probability keep the frame's order.
ranked(frame, probabilities) ==
    sort_values([i \in 1..Len(frame) |->
                    [Player_Name |-> frame[i].Player_Name, Team |-> frame[i].Team,
                     Opponent |-> frame[i].Opponent,
                     Goal_Probability |-> probabilities[i]]],
                LAMBDA r : <<0 - r.Goal_Probability>>)

\* df.head(n).
head(df, n) == SubSeq(df, 1, IF Len(df) < n THEN Len(df) ELSE n)

\* Lines 183-203 and 303-319: the matrix is taken from the frame by the
\* feature order, the classifier scores it and the ranking is shown; a
\* KeyError is reported instead.
predict_and_rank(path, frame, columns, feature_order, feature_names, top, said) ==
    LET X_columns == getitem_columns(columns, feature_order)
        X == select_columns(frame, X_columns)
    IN  IF X_columns = KeyError
        THEN Said(path, said \o <<"Feature mismatch">>)
        ELSE [path |-> path, X_columns |-> X_columns, X |-> X,
              feature_names |-> feature_names,
              results |-> head(ranked(frame, predict_proba(X)), top),
              skipped |-> <<>>, messages |-> said, request |-> <<>>,
              X_index |-> [i \in 1..Len(frame) |->
                              <<frame[i].Player_Name, frame[i].Team>>]]

\* Lines 128-207: "Calculate Top 5 Predictions" with the model, the feature
\* table and the feature order the script run holds.
top_5(model_obj, historical_df, feature_order, tonight, answer) ==
    IF model_obj = <<>> \/ historical_df = <<>> \/ feature_order = <<>>
    THEN Said("top5", <<"Model or data not loaded correctly">>)
    ELSE IF answer = "down"
    THEN Said("top5", <<"Error fetching schedule">>)
    ELSE IF Schedule(tonight, answer) = <<>>
    THEN Said("top5", <<"No games scheduled">>)
    ELSE
    LET matchups == player_matchups(schedule_names(Schedule(tonight, answer)))
        teams_playing_tonight == DOMAIN matchups
        latest == latest_player_stats(historical_df)
        playing == SelectIdx(latest, LAMBDA i : latest[i].Team \in teams_playing_tonight)
        defence == latest_team_def_stats(latest)
        players_playing_tonight_df ==
            [i \in 1..Len(playing) |->
                [playing[i] EXCEPT
                    !.Opponent = matchups[playing[i].Team],
                    !.Opp_GA_Avg_Last_10 = Get(defence, matchups[playing[i].Team], 0)]]
    IN  IF teams_playing_tonight = {}
        THEN Said("top5", <<"Matchups fetched successfully",
                            "No games found in schedule data">>)
        ELSE IF playing = <<>>
        THEN Said("top5", <<"Matchups fetched successfully",
                            "Could not find recent stats">>)
        ELSE IF "Opp_GA_Avg_Last_10" \notin Range(columns_of(historical_df))
        THEN Said("top5", <<"Matchups fetched successfully", Uncaught>>)
        ELSE predict_and_rank("top5", players_playing_tonight_df,
                              columns_of(historical_df), feature_order, model_obj, 5,
                              <<"Matchups fetched successfully">>)

\* Mutant: the team of a row of the name's latest date with the stats of
\* the first row of the name in file order.
player_recent_stats_mixed(historical_df, player_name, stable) ==
    LET player_all_stats ==
            SelectIdx(historical_df, LAMBDA i : historical_df[i].Player_Name = player_name)
        newest ==
            SelectIdx(player_all_stats,
                      LAMBDA i : \A j \in 1..Len(player_all_stats) :
                                    player_all_stats[j].Date <= player_all_stats[i].Date)
        row == IF stable THEN newest[Len(newest)] ELSE newest[1]
    IN  [player_all_stats[1] EXCEPT !.Team = row.Team]

\* player_all_stats.sort_values(by='Date').iloc[-1] for the rows of one
\* name: a row of the latest date.  The sort is not a stable one, so among
\* several rows of that date it is the last in file order (stable) or
\* another one (here: the first).
player_recent_stats(historical_df, player_name, stable) ==
    LET player_all_stats ==
            SelectIdx(historical_df, LAMBDA i : historical_df[i].Player_Name = player_name)
        newest ==
            SelectIdx(player_all_stats,
                      LAMBDA i : \A j \in 1..Len(player_all_stats) :
                                    player_all_stats[j].Date <= player_all_stats[i].Date)
    IN  IF stable THEN newest[Len(newest)] ELSE newest[1]

\* Lines 283-299: the dict built for one selected player.
features_dict(recent, opponent_team, opponent_ga_avg, player_name) ==
    [Shots |-> recent.Shots, Hits |-> recent.Hits,
     Blocked_Shots |-> recent.Blocked_Shots,
     Penalty_Minutes |-> recent.Penalty_Minutes,
     Time_On_Ice |-> recent.Time_On_Ice, PowerPlay_TOI |-> recent.PowerPlay_TOI,
     ShortHanded_TOI |-> recent.ShortHanded_TOI,
     Avg_Goals_Last_10 |-> Get(recent, "Avg_Goals_Last_10", 0),
     Avg_Shots_Last_10 |-> Get(recent, "Avg_Shots_Last_10", 0),
     Avg_Time_On_Ice_Last_10 |-> Get(recent, "Avg_Time_On_Ice_Last_10", 0),
     Avg_PowerPlay_TOI_Last_10 |-> Get(recent, "Avg_PowerPlay_TOI_Last_10", 0),
     Avg_Hits_Last_10 |-> Get(recent, "Avg_Hits_Last_10", 0),
     Opp_GA_Avg_Last_10 |-> opponent_ga_avg,
     Player_Name |-> player_name, Team |-> recent.Team, Opponent |-> opponent_team]

\* The columns of pd.DataFrame(tonight_players_data): the keys of the dict
\* in insertion order.
DictColumns ==
    <<"Shots", "Hits", "Blocked_Shots", "Penalty_Minutes", "Time_On_Ice",
      "PowerPlay_TOI", "ShortHanded_TOI", "Avg_Goals_Last_10", "Avg_Shots_Last_10",
      "Avg_Time_On_Ice_Last_10", "Avg_PowerPlay_TOI_Last_10", "Avg_Hits_Last_10",
      "Opp_GA_Avg_Last_10", "Player_Name", "Team", "Opponent">>

\* Lines 267-299: one turn of the loop over the selected players: the reason
\* the player is skipped for, or the dict appended for the player.
selected_player(historical_df, matchups, defence, player_name, stable) ==
    IF \A i \in 1..Len(historical_df) : historical_df[i].Player_Name # player_name
    THEN [skipped |-> <<player_name \o " (No historical data)">>, data |-> <<>>,
          raised |-> FALSE]
    ELSE
    LET recent == player_recent_stats(historical_df, player_name, stable)
        opponent_team == Get(matchups, recent.Team, "")
    IN  IF opponent_team = ""
        THEN [skipped |-> <<player_name \o " (Team '" \o recent.Team
                                \o "' not playing tonight)">>,
              data |-> <<>>, raised |-> FALSE]
        ELSE IF ~(IndexedColumns \subseteq DOMAIN recent)
        THEN [skipped |-> <<>>, data |-> <<>>, raised |-> TRUE]
        ELSE [skipped |-> <<>>,
              data |-> <<features_dict(recent, opponent_team,
                                       Get(defence, opponent_team, 0), player_name)>>,
              raised |-> FALSE]

\* Lines 221-327: "Predict for Selected Players".
selected_players_prediction(model_obj, historical_df, feature_order, selected_players, tonight, answer, stable) ==
    IF selected_players = <<>>
    THEN Said("selected", <<"Please select at least one player.">>)
    ELSE IF model_obj = <<>> \/ historical_df = <<>> \/ feature_order = <<>>
    THEN Said("selected", <<"Model or data not loaded correctly">>)
    ELSE IF answer = "down"
    THEN Said("selected", <<"Error fetching schedule">>)
    ELSE IF Schedule(tonight, answer) = <<>>
    THEN Said("selected", <<"No games scheduled">>)
    ELSE IF "Opp_GA_Avg_Last_10" \notin Range(columns_of(historical_df))
    THEN Said("selected", <<"Matchups fetched successfully", Uncaught>>)
    ELSE
    LET matchups == player_matchups(schedule_names(Schedule(tonight, answer)))
        defence == latest_team_def_stats(latest_player_stats(historical_df))
        turns == [k \in 1..Len(selected_players) |->
                    selected_player(historical_df, matchups, defence,
                                    selected_players[k], stable)]
        tonight_players_data == Flatten([k \in 1..Len(turns) |-> turns[k].data])
        skipped_players == Flatten([k \in 1..Len(turns) |-> turns[k].skipped])
        shown == IF tonight_players_data = <<>>
                 THEN Said("selected", <<"Matchups fetched successfully">>)
                 ELSE predict_and_rank("selected", tonight_players_data, DictColumns,
                                       feature_order, model_obj,
                                       Len(tonight_players_data),
                                       <<"Matchups fetched successfully">>)
    IN  IF \E k \in 1..Len(turns) : turns[k].raised
        THEN Said("selected", <<"Matchups fetched successfully", Uncaught>>)
        ELSE [shown EXCEPT !.skipped = skipped_players]

\* The script run of session s (lines 82-85): load_model and load_data
\* answer from the server's caches when they hold an entry; otherwise their
\* bodies run, and load_model's body records the feature names of the model
\* it loaded in the state of the session that ran it.
model_of_run == IF cache_resource = <<>> THEN model ELSE cache_resource[1]

historical_df_of_run == IF cache_data = <<>> THEN featured ELSE cache_data[1]

session_state_of_run(s) ==
    IF cache_resource = <<>> /\ model # <<>>
    THEN [session_state EXCEPT ![s] = model]
    ELSE session_state

\* sorted(df['Player_Name'].unique()): the options of the multiselect.
unique_player_names(df) ==
    SelectIdx(PlayerNameOrder,
              LAMBDA k : \E i \in 1..Len(df) : df[i].Player_Name = PlayerNameOrder[k])

\* The selections a user makes: some of the options, in the options' order.
Selections(options) ==
    {SelectIdx(options, LAMBDA k : options[k] \in chosen) : chosen \in SUBSET Range(options)}

ScriptRun(s) ==
    /\ cache_resource' = <<model_of_run>>
    /\ cache_data' = <<historical_df_of_run>>
    /\ session_state' = session_state_of_run(s)
    /\ UNCHANGED <<store, rows_removed, processed, featured, model>>

Top5(s, tonight, answer) ==
    /\ ScriptRun(s)
    /\ out' = [top_5(model_of_run, historical_df_of_run, session_state'[s],
                     tonight, answer)
                  EXCEPT !.request = Request(tonight, answer, <<>>)]

SelectedPlayers(s, selected_players, tonight, answer, stable) ==
    /\ selected_players \in Selections(unique_player_names(historical_df_of_run))
    /\ ScriptRun(s)
    /\ out' = [selected_players_prediction(model_of_run, historical_df_of_run,
                                           session_state'[s], selected_players,
                                           tonight, answer, stable)
                  EXCEPT !.request = Request(tonight, answer, selected_players)]

\* ------------------------------------------------- predict_tonight.py

PLAYER_LIST ==
    <<"C. McDavid", "A. Matthews", "N. MacKinnon", "D. Pastrnak",
      "L. Draisaitl", "M. Rantanen", "J. Robertson", "T. Thompson",
      "M. Tkachuk", "K. Kaprizov", "S. Crosby", "A. Ovechkin",
      "J. Hughes", "T. Stutzle", "E. Pettersson">>

\* Lines 19-24: no name unless both parts are present.
batch_get_full_team_name(team_data) ==
    IF team_data.placeName # "" /\ team_data.commonName # ""
    THEN team_data.placeName \o " " \o team_data.commonName
    ELSE ""

batch_schedule_names(games) ==
    [i \in 1..Len(games) |-> <<batch_get_full_team_name(games[i].homeTeam),
                               batch_get_full_team_name(games[i].awayTeam)>>]

\* opponent_valid_stats.sort_values(by='Date').iloc[-1]: a row of the
\* opponent team's latest date (see player_recent_stats for the choice).
opponent_recent_stats(historical_df, opponent_team, stable) ==
    LET opponent_valid_stats ==
            SelectIdx(historical_df, LAMBDA i : historical_df[i].Team = opponent_team)
        newest ==
            SelectIdx(opponent_valid_stats,
                      LAMBDA i : \A j \in 1..Len(opponent_valid_stats) :
                                    opponent_valid_stats[j].Date
                                        <= opponent_valid_stats[i].Date)
    IN  IF stable THEN newest[Len(newest)] ELSE newest[1]

\* Lines 61-102: one turn of the loop over PLAYER_LIST.
batch_player(historical_df, matchups, player_name, stable) ==
    IF \A i \in 1..Len(historical_df) : historical_df[i].Player_Name # player_name
    THEN [skipped |-> <<player_name \o " (No historical data)">>, data |-> <<>>,
          raised |-> FALSE]
    ELSE
    LET recent == player_recent_stats(historical_df, player_name, stable)
        opponent_team == Get(matchups, recent.Team, "")
    IN  IF opponent_team = ""
        THEN [skipped |-> <<player_name \o " (Team '" \o recent.Team
                                \o "' not playing tonight)">>,
              data |-> <<>>, raised |-> FALSE]
        ELSE IF \A i \in 1..Len(historical_df) : historical_df[i].Team # opponent_team
        THEN [skipped |-> <<player_name \o " (No historical data for opponent "
                                \o opponent_team \o ")">>,
              data |-> <<>>, raised |-> FALSE]
        ELSE IF ~(Range(features) \subseteq DOMAIN recent)
        THEN [skipped |-> <<>>, data |-> <<>>, raised |-> TRUE]
        ELSE [skipped |-> <<>>,
              data |-> <<features_dict(recent, opponent_team,
                            opponent_recent_stats(historical_df, opponent_team, stable)
                                .Opp_GA_Avg_Last_10,
                            player_name)>>,
              raised |-> FALSE]

\* The whole script, on the files as they are when it runs.
predict_tonight(tonight, answer, stable) ==
    IF model = <<>> \/ featured = <<>>
    THEN Said("batch", <<"Could not find a necessary file">>)
    ELSE IF answer = "down"
    THEN Said("batch", <<"Traceback">>)
    ELSE IF answer = "noweek"
    THEN Said("batch", <<"No games scheduled for tonight.">>)
    ELSE
    LET matchups == player_matchups(batch_schedule_names(Schedule(tonight, answer)))
        turns == [k \in 1..Len(PLAYER_LIST) |->
                    batch_player(featured, matchups, PLAYER_LIST[k], stable)]
        tonight_players_data == Flatten([k \in 1..Len(turns) |-> turns[k].data])
        skipped_players == Flatten([k \in 1..Len(turns) |-> turns[k].skipped])
        shown == IF tonight_players_data = <<>>
                 THEN Said("batch", <<"Matchups fetched successfully.",
                                      "Could not generate features">>)
                 ELSE predict_and_rank("batch", tonight_players_data, DictColumns,
                                       model, model, Len(tonight_players_data),
                                       <<"Matchups fetched successfully.">>)
    IN  IF \E k \in 1..Len(turns) : turns[k].raised
        THEN Said("batch", <<"Matchups fetched successfully.", Uncaught>>)
        ELSE [shown EXCEPT !.skipped = skipped_players]

PredictTonight(tonight, answer, stable) ==
    /\ out' = [predict_tonight(tonight, answer, stable)
                  EXCEPT !.request = Request(tonight, answer, PLAYER_LIST)]
    /\ UNCHANGED <<store, rows_removed, processed, featured, model>>
    /\ UNCHANGED <<cache_resource, cache_data, session_state>>

\* ------------------------------------- serving: the files of a pipeline run

\* The record stores whose feature tables the inference paths are run on:
\* nothing collected; day 1; days 1 and 2; day 1 collected twice, the second
\* time after a stat correction; the historical collection of day 1 followed
\* by the daily collection of day 2; day 1 and the day of game 103, in which
\* the two players named S. Aho face each other.
ServeStores ==
    { <<>>,
      fetch_and_process_data_for_date(1, "final"),
      fetch_and_process_data_for_date(1, "final")
          \o fetch_and_process_data_for_date(2, "final"),
      fetch_and_process_data_for_date(1, "final")
          \o fetch_and_process_data_for_date(1, "revised"),
      build_historical_dataset(TRUE) \o fetch_and_process_data_for_date(2, "final"),
      fetch_and_process_data_for_date(1, "final")
          \o fetch_and_process_data_for_date(3, "final") }

\* The files after the pipeline has run on such a store; the model file is
\* there when an earlier training run could be evaluated.
InitServe ==
    /\ store \in ServeStores
    /\ rows_removed = <<>>
    /\ processed = [i \in 1..Len(store) |-> process_row(store[i])]
    /\ featured = IF store = <<>> THEN <<>> ELSE build_features(processed)
    /\ model \in (IF store = <<>> THEN {<<>>} ELSE {<<>>, features})
    /\ cache_resource = <<>>
    /\ cache_data = <<>>
    /\ session_state = [s \in Sessions |-> <<>>]
    /\ out = NoOutput

NextServe ==
    \/ \E s \in Sessions, tonight \in Tonights :
         \E answer \in TonightAnswers(tonight) : Top5(s, tonight, answer)
    \/ \E s \in Sessions, tonight \in Tonights, stable \in BOOLEAN :
         \E answer \in TonightAnswers(tonight) :
           \E selected_players \in Selections(PlayerNameOrder) :
             SelectedPlayers(s, selected_players, tonight, answer, stable)
    \/ \E tonight \in Tonights, stable \in BOOLEAN :
         \E answer \in TonightAnswers(tonight) : PredictTonight(tonight, answer, stable)

\* The inference paths on the files of every such pipeline run.
SpecServe == InitServe /\ [][NextServe]_vars

\* ------------------------- serving: a feature table that lacks a column

\* The contract columns a deployed feature table may lack (a file of a
\* feature build with another window or another list of rolled stats): a
\* rolling average, a box-score stat, the opponent's defensive average.
AbsentColumns == {"Avg_Goals_Last_10", "Shots", "Opp_GA_Avg_Last_10"}

\* df.drop(columns=[c]).
without_column(df, c) ==
    [i \in 1..Len(df) |-> [k \in (DOMAIN df[i]) \ {c} |-> df[i][k]]]

InitMismatch ==
    /\ store \in { fetch_and_process_data_for_date(1, "final"),
                    fetch_and_process_data_for_date(1, "final")
                        \o fetch_and_process_data_for_date(2, "final") }
    /\ rows_removed = <<>>
    /\ processed = [i \in 1..Len(store) |-> process_row(store[i])]
    /\ LET final_df == build_features(processed)
       IN  featured \in {without_column(final_df, c) : c \in AbsentColumns}
    /\ model = features
    /\ cache_resource = <<>>
    /\ cache_data = <<>>
    /\ session_state = [s \in Sessions |-> <<>>]
    /\ out = NoOutput

\* The inference paths on a model and a feature table that do not agree.
SpecMismatch == InitMismatch /\ [][NextServe]_vars

\* ------------------------------------------------------------ specification

Init ==
    /\ store = <<>>
    /\ rows_removed = <<>>
    /\ processed = <<>>
    /\ featured = <<>>
    /\ model = <<>>
    /\ cache_resource = <<>>
    /\ cache_data = <<>>
    /\ session_state = [s \in Sessions |-> <<>>]
    /\ out = NoOutput

Next ==
    \/ \E d \in Dates : \E v \in Variants(d) : Ingest(d, v)
    \/ \E named \in BOOLEAN : CollectHistorical(named)
    \/ Deduplicate
    \/ ProcessData
    \/ TrainModel

Spec == Init /\ [][Next]_vars

\* ------------------------------------------- long single-player histories

\* The longest history of SpecRoll, in games.
MaxGames == 12

\* The processed row of game k of a season in which one player plays one
\* game a day and takes s shots in it.
HistoryRow(k, s) ==
    process_row(player_info(200 + k, k, "Edmonton Oilers",
                            Player(97, "C. McDavid", (s \div 2) - 1, s, k % 2)))

\* A processed table of n such games whose shots repeat the three values of
\* motif, in file order oldest first or newest first.
History(motif, n, newest_first) ==
    [i \in 1..n |->
        LET k == IF newest_first THEN n + 1 - i ELSE i
        IN  HistoryRow(k, motif[((k - 1) % 3) + 1])]

InitRoll ==
    /\ store = <<>>
    /\ rows_removed = <<>>
    /\ processed \in {History(motif, n, newest_first) :
                        motif \in [1..3 -> {2, 4, 6}], n \in 1..MaxGames,
                        newest_first \in BOOLEAN}
    /\ featured = <<>>
    /\ model = <<>>
    /\ cache_resource = <<>>
    /\ cache_data = <<>>
    /\ session_state = [s \in Sessions |-> <<>>]
    /\ out = NoOutput

NextRoll == TrainModel

\* The feature build applied to every history up to MaxGames games.
SpecRoll == InitRoll /\ [][NextRoll]_vars

\* ------------------------------------------------- a day of several games

\* The record store of the several-game scenario holds at most this many rows.
MaxSlateRows == 6

Jets     == [placeName |-> "Winnipeg", commonName |-> "Jets"]
Leafs    == [placeName |-> "Toronto",  commonName |-> "Maple Leafs"]
Senators == [placeName |-> "Ottawa",   commonName |-> "Senators"]

\* schedule_data['gameWeek'][0]['games'] of a day with three games.
SlateGames(d) ==
    << [id |-> 200 + 10 * d + 1, homeTeam |-> Oilers,  awayTeam |-> Flames],
       [id |-> 200 + 10 * d + 2, homeTeam |-> Canucks, awayTeam |-> Jets],
       [id |-> 200 + 10 * d + 3, homeTeam |-> Leafs,   awayTeam |-> Senators] >>

\* What the box-score endpoint may do for one game:
\*   ok          answer a well-formed box score
\*   error       fail the request (requests.exceptions.RequestException)
\*   malformed   answer a box score whose home player has no 'playerId'
GameAnswers == {"ok", "error", "malformed"}

SlateAnswers == [1..3 -> GameAnswers]

\* The box score of a slate game under a non-error answer: one forward a side.
SlateBoxscore(game, a) ==
    LET away == Player(game.id * 10 + 1, "A. Away", 1, 2, 0)
        home == Player(game.id * 10 + 2, "H. Home", 0, 1, 1)
    IN  [homeTeam |-> [name |-> game.homeTeam.commonName],
         awayTeam |-> [name |-> game.awayTeam.commonName],
         playerByGameStats |->
           [awayTeam |-> [forwards |-> <<away>>, defense |-> <<>>],
            homeTeam |->
              [forwards |->
                 << IF a = "malformed"
                    THEN [k \in DOMAIN home \ {"playerId"} |-> home[k]]
                    ELSE home >>,
               defense |-> <<>>]]]

\* The body of the games loop for one game: the rows appended before the
\* body ends or raises, and whether it raised and what ("" when it did not).
\* away_name and home_name are the names the collector gives the teams.
game_body(game, date_str, a, away_name, home_name) ==
    IF a = "error" THEN [rows |-> <<>>, raised |-> "RequestException"]
    ELSE
      LET game_data == SlateBoxscore(game, a)
          section(team_key) == game_data.playerByGameStats[team_key]
          players(team_key) == section(team_key).forwards \o section(team_key).defense
          entries == [i \in 1..Len(players("awayTeam")) |->
                          <<away_name, players("awayTeam")[i]>>]
                     \o [i \in 1..Len(players("homeTeam")) |->
                          <<home_name, players("homeTeam")[i]>>]
          bad == {i \in 1..Len(entries) : "playerId" \notin DOMAIN entries[i][2]}
          n == IF bad = {} THEN Len(entries)
               ELSE (CHOOSE i \in bad : \A j \in bad : i <= j) - 1
      IN  [rows |-> [i \in 1..n |->
                       player_info(game.id, date_str, entries[i][1], entries[i][2])],
           raised |-> IF bad = {} THEN "" ELSE "KeyError"]

\* The games loop of a date: the bodies in schedule order up to the first
\* that raises; nothing inside the loop catches.
games_loop(bodies) ==
    LET F[i \in 0..Len(bodies)] ==
            IF i = 0 THEN [rows |-> <<>>, raised |-> ""]
            ELSE IF F[i - 1].raised # "" THEN F[i - 1]
            ELSE [rows |-> F[i - 1].rows \o bodies[i].rows,
                  raised |-> bodies[i].raised]
    IN  F[Len(bodies)]

\* 1_data_collector.py, fetch_and_process_data_for_date on the slate: the
\* try around the loop catches every Exception and what was appended so far
\* is returned.
fetch_slate(date_str, answers) ==
    LET games == SlateGames(date_str)
    IN  games_loop([i \in 1..Len(games) |->
            LET home_team_name == get_full_team_name(games[i].homeTeam)
                away_team_name == get_full_team_name(games[i].awayTeam)
            IN  IF home_team_name = "" \/ away_team_name = ""
                THEN [rows |-> <<>>, raised |-> ""]
                ELSE game_body(games[i], date_str, answers[i],
                               away_team_name, home_team_name)]).rows

\* __main__ of 1_data_collector.py: append what was fetched, if anything.
IngestSlate(d, answers) ==
    LET new_data_df == fetch_slate(d, answers)
    IN  /\ Len(store) + Len(new_data_df) <= MaxSlateRows
        /\ store' = IF new_data_df = <<>> THEN store ELSE store \o new_data_df
        /\ rows_removed' = <<>>
        /\ UNCHANGED <<processed, featured, model, serving>>

\* data_collector.py, build_historical_dataset on a season of one slate: the
\* try around the date's loop catches RequestException only.
historical_slate(date_str, answers) ==
    LET games == SlateGames(date_str)
    IN  games_loop([i \in 1..Len(games) |->
            game_body(games[i], date_str, answers[i],
                      games[i].awayTeam.commonName, games[i].homeTeam.commonName)])

\* The historical script on the slate of day 1: a KeyError ends the script
\* before the file is written.
CollectSlate(answers) ==
    LET collected == historical_slate(1, answers)
    IN  /\ store = <<>>
        /\ collected.raised # "KeyError"
        /\ store' = collected.rows
        /\ rows_removed' = <<>>
        /\ UNCHANGED <<processed, featured, model, serving>>

InitSlate ==
    /\ store = <<>>
    /\ rows_removed = <<>>
    /\ processed = <<>>
    /\ featured = <<>>
    /\ model = <<>>
    /\ cache_resource = <<>>
    /\ cache_data = <<>>
    /\ session_state = [s \in Sessions |-> <<>>]
    /\ out = NoOutput

NextSlate ==
    \/ \E d \in Dates, answers \in SlateAnswers : IngestSlate(d, answers)
    \/ \E answers \in SlateAnswers : CollectSlate(answers)

\* The two collectors on days of three games whose box scores may fail.
SpecSlate == InitSlate /\ [][NextSlate]_vars

\* ------------------------------------------ histories with defective values

\* What the upstream may give in place of one stat of one game: nothing
\* wrong, or the stat of column col missing (null, or no MM:SS text) or
\* given as text that is not a number (or not MM:SS).
RawDefects ==
    {<<"none", "none">>}
        \cup ({"Goals", "Shots", "Hits", "Time_On_Ice", "PowerPlay_TOI"}
                  \X {"missing", "text"})

DefectiveValue(col, kind) ==
    IF col \in {"Time_On_Ice", "PowerPlay_TOI"}
    THEN (IF kind = "missing" THEN <<>> ELSE <<NotInt, 30>>)
    ELSE (IF kind = "missing" THEN NaN ELSE Text)

\* The row collected for game k of a player who scores 1 goal on 2 shots
\* with 2 hits in every game, under the defect.
RawGame(k, defect) ==
    LET r == player_info(300 + k, k, "Edmonton Oilers",
                         Player(97, "C. McDavid", 1, 2, 2))
    IN  IF defect[1] = "none" THEN r
        ELSE [r EXCEPT ![defect[1]] = DefectiveValue(defect[1], defect[2])]

InitCoerce ==
    /\ store \in {<<RawGame(1, d1), RawGame(2, d2), RawGame(3, <<"none", "none">>)>> :
                    d1 \in RawDefects, d2 \in RawDefects}
    /\ rows_removed = <<>>
    /\ processed = <<>>
    /\ featured = <<>>
    /\ model = <<>>
    /\ cache_resource = <<>>
    /\ cache_data = <<>>
    /\ session_state = [s \in Sessions |-> <<>>]
    /\ out = NoOutput

NextCoerce == ProcessData \/ TrainModel

\* Preprocessing and the feature build on every three-game history whose
\* first two games may each hold one defective value.
SpecCoerce == InitCoerce /\ [][NextCoerce]_vars

\* ------------------------------------------------------- claim vocabulary

\* df with column col of the rows at the indices in S raised by one.
Bump(df, S, col) ==
    [i \in 1..Len(df) |-> IF i \in S THEN [df[i] EXCEPT ![col] = @ + 1] ELSE df[i]]

GamesIn(df) == {df[i].Game_ID : i \in 1..Len(df)}

TeamsOf(df, g) == {df[i].Team : i \in {j \in 1..Len(df) : df[j].Game_ID = g}}

\* The goals of team t's observations of game g.
GoalsOf(df, g, t) ==
    SumSeq([i \in 1..Len(df) |->
        IF df[i].Game_ID = g /\ df[i].Team = t THEN df[i].Goals ELSE 0])

BoxScoreColumns ==
    {"Goals", "Assists", "Shots", "Hits", "Blocked_Shots", "Penalty_Minutes",
     "Time_On_Ice", "PowerPlay_TOI", "ShortHanded_TOI"}

\* The columns of nhl_processed_stats.csv.
ProcessedColumns ==
    {"Game_ID", "Date", "Player_ID", "Player_Name", "Team", "Did_Score"}
        \cup BoxScoreColumns

\* The base (pre-feature) columns of a feature row.
BaseRow(r) == [c \in ProcessedColumns |-> r[c]]

Min(a, b) == IF a < b THEN a ELSE b

\* ------------------------------------------------------------------ claims

\* C1: every rolling value the feature build attaches to a player's row for
\* a game is unchanged when a stat of any observation of that player dated
\* on or after the game's date (the game's own row included) is changed.
C1_NoTemporalLeak ==
    \A j \in 1..Len(processed), k \in 1..Len(stats_to_roll) :
        LET stat == stats_to_roll[k]
            before == player_features(processed)
            after == player_features(Bump(processed, {j}, stat))
        IN  \A i \in 1..Len(before) :
                (/\ before[i].Player_ID = processed[j].Player_ID
                 /\ processed[j].Date >= before[i].Date)
                => fillna(after[i])[AvgName(stat)] = fillna(before[i])[AvgName(stat)]

\* C2: no column of the training feature list reads the stat line of the
\* game it belongs to: changing a box-score column of every observation of
\* game g leaves the training-matrix rows of game g unchanged.
C2_NoSameGameFeature ==
    \A g \in GamesIn(processed), col \in BoxScoreColumns :
        LET S == {j \in 1..Len(processed) : processed[j].Game_ID = g}
            X0 == build_features(processed)
            X1 == build_features(Bump(processed, S, col))
        IN  \A i \in 1..Len(X0) :
                X0[i].Game_ID = g
                => select_columns(X0, features)[i] = select_columns(X1, features)[i]

\* C3: in the feature table of a player's history, the rows are in date
\* order and hold the input observations, and the Avg_<stat>_Last_10 of the
\* player's i-th row is the arithmetic mean of the stat over the
\* min(i-1, 10) rows just before it, 0 for the first row.
C3_RollingMean ==
    featured # <<>> =>
        /\ {BaseRow(featured[i]) : i \in 1..Len(featured)} = Range(processed)
        /\ \A p \in {featured[i].Player_ID : i \in 1..Len(featured)} :
            LET rows == SelectSeq(featured, LAMBDA r : r.Player_ID = p)
            IN  \A i \in 1..Len(rows), k \in 1..Len(stats_to_roll) :
                    LET stat == stats_to_roll[k]
                        n == Min(i - 1, 10)
                        prior == SubSeq(rows, i - n, i - 1)
                        total == SumSeq([m \in 1..n |-> prior[m][stat]])
                    IN  /\ i > 1 => rows[i - 1].Date <= rows[i].Date
                        /\ n * rows[i][AvgName(stat)] = AvgScale * total
                        /\ i = 1 => rows[i][AvgName(stat)] = 0

\* C3 witness: a built history of more than 10 prior games whose first
\* three games had 2, 4 and 6 shots: their averages are 0, 2 and 3.
W_C3_TwoFourSix ==
    /\ Len(featured) > roll_window + 1
    /\ <<featured[1].Shots, featured[2].Shots, featured[3].Shots>> = <<2, 4, 6>>
    /\ <<featured[1].Avg_Shots_Last_10, featured[2].Avg_Shots_Last_10,
         featured[3].Avg_Shots_Last_10>> = <<0, 2 * AvgScale, 3 * AvgScale>>
    /\ featured[1].Date = 1
    /\ processed[1].Date # 1

\* C4: for a game with exactly two distinct teams, the team defensive
\* statistics hold one row per team of the game, whose Goals_Allowed is the
\* sum of the goals of the other team's observations of that game.
C4_GoalsAllowed ==
    LET tds == team_defensive_stats(player_features(processed))
    IN  \A g \in GamesIn(processed) :
            Cardinality(TeamsOf(processed, g)) = 2 =>
                \A t \in TeamsOf(processed, g) :
                    LET other == CHOOSE o \in TeamsOf(processed, g) : o # t
                        rows == SelectSeq(tds, LAMBDA r : r.Game_ID = g /\ r.Team = t)
                    IN  /\ Len(rows) = 1
                        /\ rows[1].Goals_Allowed = GoalsOf(processed, g, other)

\* C4 witness: a processed game in which one team's players total 3 goals
\* and the other's 1, with Goals_Allowed 1 for the first and 3 for the other.
W_C4_ThreeOne ==
    /\ TeamsOf(processed, 101) = {"Edmonton Oilers", "Calgary Flames"}
    /\ GoalsOf(processed, 101, "Edmonton Oilers") = 3
    /\ GoalsOf(processed, 101, "Calgary Flames") = 1
    /\ \E r \in Range(team_defensive_stats(player_features(processed))) :
          r.Game_ID = 101 /\ r.Team = "Edmonton Oilers" /\ r.Goals_Allowed = 1
    /\ \E r \in Range(team_defensive_stats(player_features(processed))) :
          r.Game_ID = 101 /\ r.Team = "Calgary Flames" /\ r.Goals_Allowed = 3

\* C5: a game whose observations carry a number of distinct team names
\* other than 2 contributes no row to the team defensive statistics and no
\* entry to the team-to-opponent map.
C5_MalformedGameExcluded ==
    LET df == player_features(processed)
    IN  \A g \in GamesIn(processed) :
            Cardinality(TeamsOf(processed, g)) # 2 =>
                /\ \A r \in Range(team_defensive_stats(df)) : r.Game_ID # g
                /\ \A r \in Range(opponent_map(df)) : r.Game_ID # g

\* C6: the feature build writes exactly one row per row it read.
C6_OneRowPerObservation ==
    [][TrainModel => Len(featured') = Len(processed)]_vars

\* C7: a deduplication pass leaves, for each (Game_ID, Player_ID, Date) key
\* of the store, exactly one record, the last-appended one with that key,
\* and nothing else; a pass run right after a pass removes no rows and
\* leaves the store as it is.
C7_DedupKeepsLast ==
    [][Deduplicate =>
        /\ \A i \in 1..Len(store) :
              LET key == unique_cols(store[i])
                  last == CHOOSE j \in 1..Len(store) :
                            /\ unique_cols(store[j]) = key
                            /\ \A m \in (j + 1)..Len(store) : unique_cols(store[m]) # key
                  kept == {m \in 1..Len(store') : unique_cols(store'[m]) = key}
              IN  /\ Cardinality(kept) = 1
                  /\ \A m \in kept : store'[m] = store[last]
        /\ Range(store') \subseteq Range(store)
        /\ rows_removed # <<>> => (rows_removed' = <<0>> /\ store' = store)
    ]_vars

\* C7 witness: a pass removed the three first-published rows of game 101
\* and left the three revised ones.
W_C7_Removed ==
    /\ rows_removed = <<3>>
    /\ Len(store) = 3
    /\ \E i \in 1..Len(store) :
          store[i].Player_ID = 97 /\ store[i].Game_ID = 101 /\ store[i].Shots = 4

\* C8: after a deduplication pass no two records of the store share the
\* same Game_ID and Player_ID.
C8_UniqueGamePlayer ==
    rows_removed # <<>> =>
        \A i, j \in 1..Len(store) :
            (store[i].Game_ID = store[j].Game_ID
             /\ store[i].Player_ID = store[j].Player_ID) => i = j

\* C8 witness: a pass removed the rows of the historical collection that
\* the daily ingestion of the same day had appended again.
W_C8_Deduplicated ==
    /\ rows_removed # <<>>
    /\ rows_removed[1] > 0
    /\ store # <<>>
    /\ \A i \in 1..Len(store) : store[i].Team \in {"Edmonton Oilers", "Calgary Flames"}
    /\ \E i \in 1..Len(store) : store[i].Player_ID = 97 /\ store[i].Shots = 2

\* The last n rows of the store are the batch b.
EndsWith(df, b) ==
    Len(df) >= Len(b) /\ SubSeq(df, Len(df) - Len(b) + 1, Len(df)) = b

\* A step that ingests, for the date just ingested, the same records again.
RepeatIngest ==
    \E d \in Dates : \E v \in Variants(d) :
        LET b == fetch_and_process_data_for_date(d, v)
        IN  b # <<>> /\ EndsWith(store, b) /\ store' = store \o b

\* C9: ingesting a date again with the same upstream records, then
\* deduplicating, leaves the records that deduplicating without the repeat
\* leaves.
C9_ReingestIdempotent ==
    [][RepeatIngest => Range(drop_duplicates(store')) = Range(drop_duplicates(store))]_vars

\* C9 witness: the store ends with the same day's batch twice.
W_C9_Reingested ==
    \E d \in Dates : \E v \in Variants(d) :
        LET b == fetch_and_process_data_for_date(d, v)
        IN  b # <<>> /\ EndsWith(store, b \o b)

\* C10: in each inference path (Top 5, selected players, batch script), when
\* a prediction is produced for at least one player, the matrix given to
\* predict_proba has exactly the columns of the feature-name list stored in
\* the trained model, in the same order, and the classifier scoring it is
\* that model.
C10_FeatureContractParity ==
    out.results # <<>> =>
        /\ out.path \in {"top5", "selected", "batch"}
        /\ out.X_columns = model
        /\ out.feature_names = model
        /\ Len(out.X) >= Len(out.results)
        /\ \A i \in 1..Len(out.X) : Len(out.X[i]) = Len(model)

\* C10 witness: the Top 5 path has ranked two players of tonight's game from
\* a feature table holding more columns than the model was fitted on.
W_C10_Top5Predicted ==
    /\ out.path = "top5"
    /\ Len(out.results) >= 2
    /\ out.X_columns = features
    /\ \E i \in 1..Len(featured) : DOMAIN featured[i] # Range(features)

\* C11: when the feature table that a request reads lacks a column of the
\* feature contract, the request produces no probability: nothing is ranked
\* and no matrix is scored (no value stands in for the absent column).
C11_MismatchIsFatal ==
    (/\ out.path # "none"
     /\ \E k \in 1..Len(features) : features[k] \notin Range(columns_of(featured)))
        => out.results = <<>> /\ out.X = <<>>

\* ----------------------------------------- vocabulary of the serving claims

\* The request behind the output went as far as an answer of the schedule
\* endpoint: it was not refused for a missing model or table or an empty
\* selection, and the fetch did not raise.
Fetched(o) ==
    /\ o.path \in {"top5", "selected", "batch"}
    /\ o.request.answer # "down"
    /\ o.messages \notin {<<"Model or data not loaded correctly">>,
                          <<"Please select at least one player.">>,
                          <<"Could not find a necessary file">>}

\* The team-to-opponent map of the request's evening, as its path builds it.
MatchupsOf(o) ==
    IF o.path = "batch"
    THEN player_matchups(batch_schedule_names(
             Schedule(o.request.tonight, o.request.answer)))
    ELSE player_matchups(schedule_names(
             Schedule(o.request.tonight, o.request.answer)))

\* The observations the request's path takes as the snapshots of its
\* candidate players: every player's latest row (Top 5), or the row chosen
\* for each asked-for name that has history (selected players, batch).
Snapshots(o, stable) ==
    IF o.path = "top5" THEN Range(latest_player_stats(featured))
    ELSE {player_recent_stats(featured, o.request.players[k], stable) :
            k \in {j \in 1..Len(o.request.players) :
                      \E i \in 1..Len(featured) :
                          featured[i].Player_Name = o.request.players[j]}}

\* The ranked output names the player for the team.
InResults(o, name, team) ==
    \E i \in 1..Len(o.results) :
        o.results[i].Player_Name = name /\ o.results[i].Team = team

NotPlayingReason(name, team) ==
    name \o " (Team '" \o team \o "' not playing tonight)"

\* C12: a candidate player whose snapshot's team has no entry in the
\* team-to-opponent map of the evening is not in the ranked output of any
\* path, and the selected-players path lists the player as skipped with the
\* team-not-playing reason.
C12_NotPlayingExcluded ==
    Fetched(out) =>
        \E stable \in BOOLEAN : \A r \in Snapshots(out, stable) :
            r.Team \notin DOMAIN MatchupsOf(out) =>
                /\ ~InResults(out, r.Player_Name, r.Team)
                /\ out.path = "selected" =>
                       NotPlayingReason(r.Player_Name, r.Team) \in Range(out.skipped)

\* The skipped list names the player with one of the two reasons.
SkippedWithReason(o, name) ==
    \/ (name \o " (No historical data)") \in Range(o.skipped)
    \/ \E i \in 1..Len(featured) :
          NotPlayingReason(name, featured[i].Team) \in Range(o.skipped)

\* C13: after a selected-players request with a non-empty selection that
\* was not refused for a missing model or table, each selected player is
\* either in the ranked results or in the skipped list with a reason, and
\* not in both, whatever the schedule endpoint answered.
C13_NoSilentDrop ==
    (/\ out.path = "selected"
     /\ out.request.players # <<>>
     /\ out.messages # <<"Model or data not loaded correctly">>)
        => \A k \in 1..Len(out.request.players) :
              LET name == out.request.players[k]
              IN  (\E i \in 1..Len(out.results) : out.results[i].Player_Name = name)
                      # SkippedWithReason(out, name)

\* C14: the snapshot of every player predicted for the evening D is that
\* player's most recent observation dated strictly before D; no observation
\* of the feature table dated D or later is used.
C14_SnapshotBeforeTarget ==
    Fetched(out) =>
        \E stable \in BOOLEAN : \A r \in Snapshots(out, stable) :
            InResults(out, r.Player_Name, r.Team) =>
                /\ r.Date < out.request.tonight
                /\ \A i \in 1..Len(featured) :
                      (/\ featured[i].Player_ID = r.Player_ID
                       /\ featured[i].Date < out.request.tonight)
                          => featured[i].Date <= r.Date

\* The value the feature build attaches, in the rolling column of stat, to
\* an observation of the player of row r dated D that follows the rows of
\* the processed table dated before D.
TrainingAvg(r, D, stat) ==
    LET before == SelectIdx(processed, LAMBDA i : processed[i].Date < D)
        dated_D == [BaseRow(r) EXCEPT !.Game_ID = 0, !.Date = D]
        built == player_features(Append(before, dated_D))
    IN  built[CHOOSE i \in 1..Len(built) : built[i].Game_ID = 0][AvgName(stat)]

\* The value of column c in row i of the matrix given to predict_proba.
XValue(o, i, c) == o.X[i][CHOOSE k \in 1..Len(o.X_columns) : o.X_columns[k] = c]

\* C15: for a player predicted for the evening D, each Avg_<stat>_Last_10
\* of the player's row of the matrix equals the value the training-time
\* feature build attaches to an observation of that player dated D: the
\* mean of the stat over the player's (up to) 10 most recent games before D.
C15_TrainServeRolling ==
    (Fetched(out) /\ out.X # <<>>) =>
        \E stable \in BOOLEAN : \A i \in 1..Len(out.X) :
            \E r \in Snapshots(out, stable) :
                /\ <<r.Player_Name, r.Team>> = out.X_index[i]
                /\ \A k \in 1..Len(stats_to_roll) :
                      XValue(out, i, AvgName(stats_to_roll[k]))
                          = TrainingAvg(r, out.request.tonight, stats_to_roll[k])

\* The rolling goals-allowed averages the feature build holds for team O at
\* O's most recent game dated on or before D (NaN filled with 0).
OwnDefence(O, D) ==
    LET tds == team_defensive_stats(processed)
        own == {k \in 1..Len(tds) : tds[k].Team = O /\ tds[k].Date <= D}
        newest == {k \in own : \A j \in own : tds[j].Date <= tds[k].Date}
    IN  {IF tds[k].Opp_GA_Avg_Last_10 = NaN THEN 0 ELSE tds[k].Opp_GA_Avg_Last_10 :
            k \in newest}

\* C16: the Opp_GA_Avg_Last_10 given to a player who faces team O is O's
\* own rolling goals-allowed average at O's most recent game dated on or
\* before the evening of the prediction.
C16_OpponentOwnDefence ==
    (Fetched(out) /\ out.X # <<>>) =>
        \A i \in 1..Len(out.X) :
            LET O == MatchupsOf(out)[out.X_index[i][2]]
                own == OwnDefence(O, out.request.tonight)
            IN  own # {} => XValue(out, i, "Opp_GA_Avg_Last_10") \in own

\* C17: in every path, a candidate with history whose team has an opponent
\* in the evening's map, the opponent having no row in the feature table,
\* is predicted all the same, with Opp_GA_Avg_Last_10 = 0.
C17_UnresolvedOpponentZero ==
    Fetched(out) =>
        \E stable \in BOOLEAN : \A r \in Snapshots(out, stable) :
            (/\ r.Team \in DOMAIN MatchupsOf(out)
             /\ \A j \in 1..Len(featured) : featured[j].Team # MatchupsOf(out)[r.Team])
                => /\ InResults(out, r.Player_Name, r.Team)
                   /\ \E i \in 1..Len(out.X) :
                         /\ out.X_index[i] = <<r.Player_Name, r.Team>>
                         /\ XValue(out, i, "Opp_GA_Avg_Last_10") = 0

\* The number a raw value stands for once coerced: itself when it is a
\* count or the seconds of a well-formed MM:SS text, 0 otherwise.
Coerced(col, v) ==
    IF col \in {"Time_On_Ice", "PowerPlay_TOI"}
    THEN (IF v # <<>> /\ Len(v) = 2 /\ v[1] >= 0 /\ v[2] >= 0
          THEN 60 * v[1] + v[2] ELSE 0)
    ELSE (IF v >= 0 THEN v ELSE 0)

\* C18: a missing or non-numeric raw value of a rolled stat counts as a
\* game with value 0 in every rolling mean that covers it: on each game of
\* a built history, each Avg_<stat>_Last_10 is the mean, over the prior
\* games, of the raw values coerced to 0 where missing or not a number.
C18_MissingCountsAsZero ==
    (featured # <<>> /\ Len(featured) = Len(store)) =>
        \A i \in 1..Len(featured), k \in 1..Len(stats_to_roll) :
            LET stat == stats_to_roll[k]
            IN  /\ featured[i].Game_ID = store[i].Game_ID
                /\ (i - 1) * featured[i][AvgName(stat)]
                      = AvgScale * SumSeq([j \in 1..(i - 1) |->
                                              Coerced(stat, store[j][stat])])

\* The rows a well-answered slate game contributes under the daily
\* collector: its away player's row, then its home player's.
RowsOfGame(d, k) ==
    LET game == SlateGames(d)[k]
        team(t) == t.placeName \o " " \o t.commonName
    IN  << player_info(game.id, d, team(game.awayTeam),
                       SlateBoxscore(game, "ok").playerByGameStats.awayTeam.forwards[1]),
           player_info(game.id, d, team(game.homeTeam),
                       SlateBoxscore(game, "ok").playerByGameStats.homeTeam.forwards[1]) >>

\* C19: a failing game skips only that game: whenever the daily collector
\* appends what it fetched for a day under some answers of the box-score
\* endpoint, the rows of every game that answered well are among the rows
\* appended, whether the game is listed before or after a failing one.
C19_OneBadGameSkipsOnlyThatGame ==
    [][\A d \in Dates, answers \in SlateAnswers :
          (store' # store /\ store' = store \o fetch_slate(d, answers)) =>
              \A k \in 1..3 :
                  answers[k] = "ok" =>
                      \A i \in 1..Len(RowsOfGame(d, k)) :
                          \E j \in (Len(store) + 1)..Len(store') :
                              store'[j] = RowsOfGame(d, k)[i]]_vars

\* The dashboard's refusal of a prediction request (app.py lines 130, 226).
Refused(o) ==
    /\ o.path \in {"top5", "selected"}
    /\ \E k \in 1..Len(o.messages) :
          o.messages[k] = "Model or data not loaded correctly"

\* C20: in every session in which load_model yields a model, by running
\* its body or from the cache, the feature_order of the session is the
\* model's feature-name list: while the server holds a model and a
\* non-empty feature table, no dashboard request is refused with 'Model or
\* data not loaded correctly'.
C20_LoadedMeansNotRefused ==
    (/\ cache_resource # <<>> /\ cache_resource[1] # <<>>
     /\ cache_data # <<>> /\ cache_data[1] # <<>>)
        => ~Refused(out)

\* The columns of the matrix that hold a player's own box-score stats and
\* rolling averages.
PlayerColumns == {c \in Range(features) : c # "Opp_GA_Avg_Last_10"}

\* Row j of the feature table is the most recent observation of its
\* Player_ID (no row of that Player_ID has a later date).
MostRecentOfPlayer(j) ==
    \A k \in 1..Len(featured) :
        featured[k].Player_ID = featured[j].Player_ID
            => featured[k].Date <= featured[j].Date

\* C21: the vector of a player asked for by name (selected players, batch)
\* is built from one observation of one player: the team shown for the
\* player and every box-score stat and rolling average of the player's row
\* of the matrix are those of a single row of the feature table that has
\* the name and is the most recent observation of its Player_ID, also when
\* two Player_ID values share the name.
C21_SnapshotOfOnePlayer ==
    (Fetched(out) /\ out.path \in {"selected", "batch"}) =>
        \A i \in 1..Len(out.X) :
            \E j \in 1..Len(featured) :
                /\ featured[j].Player_Name = out.X_index[i][1]
                /\ featured[j].Team = out.X_index[i][2]
                /\ MostRecentOfPlayer(j)
                /\ \A c \in PlayerColumns : XValue(out, i, c) = featured[j][c]

\* Two Player_ID values of the feature table have the name.
SharedName(name) ==
    \E a, b \in 1..Len(featured) :
        /\ featured[a].Player_Name = name /\ featured[b].Player_Name = name
        /\ featured[a].Player_ID # featured[b].Player_ID

\* C21 witness: a selected-players request has ranked a player whose name
\* two Player_ID values share, both with an observation on the latest date
\* of the table, next to another selected player.
W_C21_SharedNamePredicted ==
    /\ out.path = "selected"
    /\ Len(out.results) >= 2
    /\ \E i \in 1..Len(out.X) :
          /\ SharedName(out.X_index[i][1])
          /\ \E a, b \in 1..Len(featured) :
                /\ featured[a].Player_Name = out.X_index[i][1]
                /\ featured[b].Player_Name = out.X_index[i][1]
                /\ featured[a].Player_ID # featured[b].Player_ID
                /\ featured[a].Date = featured[b].Date
                /\ MostRecentOfPlayer(a) /\ MostRecentOfPlayer(b)

====
